---- MODULE Spec2Model ----
(***************************************************************************)
(* Model of RainShockSimulator (src/rainshocksimulator.py).                *)
(*                                                                         *)
(* Numbers.  The program computes with floats.  The model keeps every      *)
(* float as an integer: intensities, the state and the accumulation in     *)
(* units of 1/SCALE, chaos factors in units of 1/MILLE, decay rates in     *)
(* units of 1/CENT and weights in units of 1/CENT.  As a float has a fixed *)
(* number of significant digits, the numbers the model can represent are   *)
(* spaced one unit apart below 1.0, two units apart in [1.0, 2.0), four in *)
(* [2.0, 4.0), and so on (ulp); the result of every sum and product is     *)
(* rounded to the nearest representable number, ties to even (fl), as      *)
(* IEEE-754 arithmetic rounds.  So the state, which stays near 1.0, is     *)
(* kept half as finely as the intensities added to it.                     *)
(*                                                                         *)
(* Time.  The clock counts units of 1/UnitsPerSecond seconds; the decay    *)
(* loops run int(dt * 20) steps for dt seconds.                            *)
(***************************************************************************)
EXTENDS Integers, Sequences, FiniteSets

VARIABLES
    shock_types,         \* self.shock_types: key -> [weight, lo, hi]
    thunder_count,       \* self.thunder_count
    current_state,       \* self.current_state
    shock_accumulation,  \* self.shock_accumulation
    shocks,              \* self.shocks, the event log
    total_drops,         \* self.total_drops
    total_mist,          \* self.total_mist
    event,               \* the event returned by the last generate_* call
    ret,                 \* the value returned by the last apply_event call
    shown,               \* whether event_display printed the last applied event
    steps,               \* decay calls made since the last applied event
    calls,               \* number of direct method calls made
    fractions,           \* the values random() returns in this run
    error,               \* the exception that ended the run, or "none"
    pc,                  \* control position (see Spec and SpecCycle)
    now,                 \* time.time(), in clock units
    start_time,          \* start_time of the running phase
    last_time,           \* last_mist_time / last_drop_time
    mist_duration,       \* experience_full_cycle(mist_duration=...)
    rain_duration        \* experience_full_cycle(rain_duration=...)

vars == <<shock_types, thunder_count, current_state, shock_accumulation, shocks,
          total_drops, total_mist, event, ret, shown, steps, calls, fractions,
          error, pc, now, start_time, last_time, mist_duration, rain_duration>>

----------------------------------------------------------------------------
(* Units of the number model. *)
SCALE == 10^5
MILLE == 10^3
CENT == 10^2
UnitsPerSecond == 2 * 20

(* Bounds of the model: the number of direct method calls, the phase        *)
(* durations and the waits drawn, in clock units.                           *)
MaxCalls == 4
MistDuration == 2
RainDuration == 3
ShortWait == 1
StepWait == 2
LongWait == 1600

----------------------------------------------------------------------------
(* Round-to-nearest, ties to even, of n / d for d > 0. *)
RoundDiv(n, d) ==
    LET q == n \div d
        r == n % d
    IN  IF 2 * r < d THEN q
        ELSE IF 2 * r > d THEN q + 1
        ELSE IF q % 2 = 0 THEN q ELSE q + 1

Abs(x) == IF x < 0 THEN -x ELSE x

(* The spacing of the representable numbers at magnitude m >= 0. *)
RECURSIVE ulp(_)
ulp(m) == IF m < SCALE THEN 1 ELSE 2 * ulp(m \div 2)

(* The representable number nearest to v: the rounding of a float result. *)
fl(v) == ulp(Abs(v)) * RoundDiv(v, ulp(Abs(v)))

(* The rounding of a float result whose exact value is n / d, for d > 0. *)
fl_quot(n, d) ==
    LET u == ulp(Abs(n) \div d)
    IN  u * RoundDiv(n, d * u)

----------------------------------------------------------------------------
(* __init__: the catalog and the parameters. *)
MistKeys == <<"soft_veil", "cool_breath", "dew_kiss">>

mist_types ==
    [k \in {"soft_veil", "cool_breath", "dew_kiss"} |->
        CASE k = "soft_veil"   -> [weight |-> 50, lo |-> 100,  hi |-> 800]
          [] k = "cool_breath" -> [weight |-> 35, lo |-> 800,  hi |-> 1500]
          [] k = "dew_kiss"    -> [weight |-> 15, lo |-> 1500, hi |-> 2500]]

ShockKeys == <<"gentle_tap", "sharp_hit", "cold_spike", "quick_rumble", "deep_roll">>

ThunderKeys == {"quick_rumble", "deep_roll"}

(* Mutant: only the two thunder types carry a weight. *)
BuiltinShockTypes_thunder_only ==
    [k \in {"gentle_tap", "sharp_hit", "cold_spike", "quick_rumble", "deep_roll"} |->
        CASE k = "gentle_tap"   -> [weight |-> 0,  lo |-> 2000,  hi |-> 5000]
          [] k = "sharp_hit"    -> [weight |-> 0,  lo |-> 5000,  hi |-> 12000]
          [] k = "cold_spike"   -> [weight |-> 0,  lo |-> 12000, hi |-> 25000]
          [] k = "quick_rumble" -> [weight |-> 2,  lo |-> 15000, hi |-> 28000]
          [] k = "deep_roll"    -> [weight |-> 1,  lo |-> 25000, hi |-> 40000]]

BuiltinShockTypes ==
    [k \in {"gentle_tap", "sharp_hit", "cold_spike", "quick_rumble", "deep_roll"} |->
        CASE k = "gentle_tap"   -> [weight |-> 50, lo |-> 2000,  hi |-> 5000]
          [] k = "sharp_hit"    -> [weight |-> 32, lo |-> 5000,  hi |-> 12000]
          [] k = "cold_spike"   -> [weight |-> 15, lo |-> 12000, hi |-> 25000]
          [] k = "quick_rumble" -> [weight |-> 2,  lo |-> 15000, hi |-> 28000]
          [] k = "deep_roll"    -> [weight |-> 1,  lo |-> 25000, hi |-> 40000]]

mist_unpredictability == 150
unpredictability == 500
shock_threshold == 2000
max_thunder == 2
baseline_state == SCALE
shock_decay == 95
mist_decay == 98

NoEvent == [type |-> "none", intensity |-> 0, chaos |-> 0]

----------------------------------------------------------------------------
(* random.choices(types, weights=weights)[0], as CPython computes it:      *)
(* cum_weights = accumulate(weights); total = cum_weights[-1];             *)
(* ValueError if total <= 0; else                                          *)
(* population[bisect(cum_weights, random() * total, 0, n - 1)].            *)
RECURSIVE running_total(_, _)
running_total(ws, i) == IF i = 0 THEN 0 ELSE running_total(ws, i - 1) + ws[i]

accumulate(ws) == [i \in 1 .. Len(ws) |-> running_total(ws, i)]

(* bisect.bisect_right(a, x, lo, hi), indices counted from 0. *)
RECURSIVE bisect(_, _, _, _)
bisect(a, x, lo, hi) ==
    IF lo < hi
    THEN LET mid == (lo + hi) \div 2
         IN  IF x < a[mid + 1] THEN bisect(a, x, lo, mid) ELSE bisect(a, x, mid + 1, hi)
    ELSE lo

total_weight(weights) == accumulate(weights)[Len(weights)]

(* The values of random() * total drawn: bisect only compares x with the    *)
(* cumulative weights, so the points next to each of them, with the two     *)
(* ends of [0, total), give every outcome.                                  *)
draw_points(cum_weights, total) ==
    { x \in {0, total - 1} \cup UNION { {cum_weights[i] - 1, cum_weights[i]}
                                          : i \in 1 .. Len(cum_weights) }
        : 0 <= x /\ x < total }

(* The keys choices can return, for a positive total. *)
choices(types, weights) ==
    LET cum_weights == accumulate(weights)
        total == cum_weights[Len(weights)]
    IN  { types[bisect(cum_weights, x, 0, Len(types) - 1) + 1]
            : x \in draw_points(cum_weights, total) }

(* Mutant: the draw starts at the high end of the range. *)
uniform_beyond(a, b, F) == { b + (b - a) * f : f \in F }

(* random.uniform(a, b) = a + (b - a) * random(), random() drawn from F     *)
(* (0 for the low end of the range, 1 for the high end).                    *)
uniform(a, b, F) == { a + (b - a) * f : f \in F }

(* intensity *= chaos_factor *)
scaled(intensity, chaos_factor) == fl_quot(intensity * chaos_factor, MILLE)

(* generate_mist: the events it can return. *)
generate_mist(F) ==
    LET types == MistKeys
        weights == [i \in 1 .. Len(types) |-> mist_types[types[i]].weight]
    IN  UNION { UNION { { [type |-> t, intensity |-> scaled(i, MILLE + c), chaos |-> MILLE + c]
                          : c \in uniform(-mist_unpredictability, mist_unpredictability, F) }
                        : i \in uniform(mist_types[t].lo, mist_types[t].hi, F) }
                : t \in choices(types, weights) }

IsThunder(k) == k \in ThunderKeys

(* Mutant: the quota test is off by one. *)
available_types_late(count, table) ==
    IF count > max_thunder
    THEN SelectSeq(ShockKeys, LAMBDA k : ~IsThunder(k))
    ELSE ShockKeys

(* Mutant: the quota is never applied. *)
available_types_all(count, table) == ShockKeys

(* generate_shock, lines 85-94: the keys sampled from. *)
available_types(count, table) ==
    IF count >= max_thunder
    THEN SelectSeq(ShockKeys, LAMBDA k : ~IsThunder(k))
    ELSE ShockKeys

(* Mutant: only deep_roll is counted as thunder. *)
track_thunder_deep_only(count, shock_type) ==
    IF shock_type = "deep_roll" THEN count + 1 ELSE count

(* Mutant: a thunder draw is counted twice. *)
track_thunder_by_two(count, shock_type) ==
    IF IsThunder(shock_type) THEN count + 2 ELSE count

(* generate_shock, lines 96-98: the new thunder_count. *)
track_thunder(count, shock_type) ==
    IF IsThunder(shock_type) THEN count + 1 ELSE count

(* Mutant: the upward chaos bound is twice the downward one. *)
generate_shock_wide(count, table, F) ==
    LET types == available_types(count, table)
        weights == [i \in 1 .. Len(types) |-> table[types[i]].weight]
    IN  UNION { UNION { { [type |-> t, intensity |-> scaled(i, MILLE + c), chaos |-> MILLE + c]
                          : c \in uniform(-unpredictability, unpredictability * 2, F) }
                        : i \in uniform(table[t].lo, table[t].hi, F) }
                : t \in choices(types, weights) }

(* generate_shock: the events it can return from a table, given thunder_count. *)
generate_shock(count, table, F) ==
    LET types == available_types(count, table)
        weights == [i \in 1 .. Len(types) |-> table[types[i]].weight]
    IN  UNION { UNION { { [type |-> t, intensity |-> scaled(i, MILLE + c), chaos |-> MILLE + c]
                          : c \in uniform(-unpredictability, (unpredictability * 3) \div 2, F) }
                        : i \in uniform(table[t].lo, table[t].hi, F) }
                : t \in choices(types, weights) }

(* Mutant: the entry records the default is_mist=False of the signature. *)
log_entry_default_flag(ev, state_before, state_after, is_mist, timestamp) ==
    [timestamp    |-> timestamp,
     type         |-> ev.type,
     intensity    |-> ev.intensity,
     chaos_factor |-> ev.chaos,
     state_before |-> state_before,
     state_after  |-> state_after,
     is_mist      |-> FALSE]

(* apply_event, lines 121-130: the log entry. *)
log_entry(ev, state_before, state_after, is_mist, timestamp) ==
    [timestamp    |-> timestamp,
     type         |-> ev.type,
     intensity    |-> ev.intensity,
     chaos_factor |-> ev.chaos,
     state_before |-> state_before,
     state_after  |-> state_after,
     is_mist      |-> is_mist]

(* apply_event, line 132: the value returned. *)
over_threshold(ev) == Abs(ev.intensity) >= shock_threshold

(* Mutant: the rate is applied to the state, not to its excess over baseline. *)
decay_state_whole(state, mist_mode) ==
    IF state > baseline_state
    THEN LET decay_rate == IF mist_mode THEN mist_decay ELSE shock_decay
         IN  fl_quot(state * decay_rate, CENT)
    ELSE state

(* Mutant: a step lowers the state by a fixed amount, whatever its excess. *)
decay_state_fixed_step(state, mist_mode) ==
    IF state > baseline_state
    THEN LET decay_rate == IF mist_mode THEN mist_decay ELSE shock_decay
         IN  fl(state - fl_quot(baseline_state * (CENT - decay_rate), CENT * CENT))
    ELSE state

(* Mutant: the state moves away from baseline. *)
decay_state_away(state, mist_mode) ==
    IF state > baseline_state
    THEN LET decay_rate == IF mist_mode THEN mist_decay ELSE shock_decay
         IN  fl(fl_quot((state - baseline_state) * (2 * CENT - decay_rate), CENT)
                + baseline_state)
    ELSE state

(* Mutant: the product is cut to a representable number, not rounded. *)
decay_state_truncating(state, mist_mode) ==
    IF state > baseline_state
    THEN LET decay_rate == IF mist_mode THEN mist_decay ELSE shock_decay
             product == ((state - baseline_state) * decay_rate) \div CENT
         IN  ulp(state) * ((product + baseline_state) \div ulp(state))
    ELSE state

(* decay_state: the new current_state. *)
decay_state(state, mist_mode) ==
    IF state > baseline_state
    THEN LET decay_rate == IF mist_mode THEN mist_decay ELSE shock_decay
         IN  fl(fl_quot((state - baseline_state) * decay_rate, CENT) + baseline_state)
    ELSE state

(* for _ in range(n): self.decay_state(mist_mode)                          *)
(* The n calls are evaluated as the first n \div 2 of them followed by the  *)
(* rest, which keeps the evaluation shallow for long waits; decay_state     *)
(* never raises the state, so calls that leave it where it was are followed *)
(* only by calls that do the same.  The two counts and the state after the  *)
(* first half are each the one element of a set, so that each is computed   *)
(* once.                                                                    *)
RECURSIVE decay_loop(_, _, _)
decay_loop(state, n, mist_mode) ==
    IF n <= 0 THEN state
    ELSE IF n = 1 THEN decay_state(state, mist_mode)
    ELSE CHOOSE after \in
             { IF half = state THEN state ELSE decay_loop(half, rest, mist_mode)
                 : <<half, rest>> \in
                     UNION { {decay_loop(state, first, mist_mode)} \X {n - first}
                               : first \in {n \div 2} } } : TRUE

(* Mutant: the last two relief events are swapped. *)
reliefs_swapped == << -18000, -45000, -32000 >>

(* experience_clearing, lines 253-257 and 260-265. *)
reliefs == << -18000, -32000, -45000 >>

relief_event(i) == [type |-> "relief", intensity |-> reliefs[i], chaos |-> MILLE]



----------------------------------------------------------------------------
(* The simulator as __init__ leaves it. *)
Constructed ==
    /\ shock_types = BuiltinShockTypes
    /\ thunder_count = 0
    /\ current_state = baseline_state
    /\ shock_accumulation = 0
    /\ shocks = << >>
    /\ total_drops = 0
    /\ total_mist = 0
    /\ event = NoEvent
    /\ ret = FALSE
    /\ shown = FALSE
    /\ steps = 0
    /\ calls = 0
    /\ error = "none"
    /\ now = 0
    /\ start_time = 0
    /\ last_time = 0

IsMistKey(k) == k \in {MistKeys[i] : i \in 1 .. Len(MistKeys)}

(* The effect of self.generate_shock() on event, thunder_count and error:  *)
(* random.choices raises ValueError when the weights total <= 0.           *)
GenerateShock ==
    LET types == available_types(thunder_count, shock_types)
        weights == [i \in 1 .. Len(types) |-> shock_types[types[i]].weight]
    IN  IF total_weight(weights) <= 0
        THEN /\ error' = "ValueError"
             /\ UNCHANGED <<event, thunder_count>>
        ELSE /\ \E ev \in generate_shock(thunder_count, shock_types, fractions) :
                  /\ event' = ev
                  /\ thunder_count' = track_thunder(thunder_count, ev.type)
             /\ UNCHANGED error

(* Mutant: the accumulation grows by the size of the displacement. *)
applied_abs(st, ev, is_mist, timestamp) ==
    LET displacement == ev.intensity
        state_before == st.state
        state_after == fl(st.state + displacement)
    IN  [state        |-> state_after,
         accumulation |-> fl(st.accumulation + Abs(displacement)),
         log          |-> Append(st.log, log_entry(ev, state_before, state_after,
                                                   is_mist, timestamp)),
         ret          |-> over_threshold(ev)]

(* Mutant: the entry's state_before is read after the state was updated. *)
applied_late_snapshot(st, ev, is_mist, timestamp) ==
    LET displacement == ev.intensity
        state_after == fl(st.state + displacement)
        state_before == state_after
    IN  [state        |-> state_after,
         accumulation |-> fl(st.accumulation + displacement),
         log          |-> Append(st.log, log_entry(ev, state_before, state_after,
                                                   is_mist, timestamp)),
         ret          |-> over_threshold(ev)]

(* Mutant: the threshold gates the logging, not only the display. *)
applied_gated(st, ev, is_mist, timestamp) ==
    LET displacement == ev.intensity
        state_before == st.state
        state_after == fl(st.state + displacement)
    IN  [state        |-> state_after,
         accumulation |-> fl(st.accumulation + displacement),
         log          |-> IF over_threshold(ev)
                          THEN Append(st.log, log_entry(ev, state_before, state_after,
                                                        is_mist, timestamp))
                          ELSE st.log,
         ret          |-> over_threshold(ev)]

(* apply_event(ev, is_mist) at the given time, on the simulator st =        *)
(* [state, accumulation, log]: the simulator after the call, with the value *)
(* returned.                                                                *)
applied(st, ev, is_mist, timestamp) ==
    LET displacement == ev.intensity
        state_before == st.state
        state_after == fl(st.state + displacement)
    IN  [state        |-> state_after,
         accumulation |-> fl(st.accumulation + displacement),
         log          |-> Append(st.log, log_entry(ev, state_before, state_after,
                                                   is_mist, timestamp)),
         ret          |-> over_threshold(ev)]

Simulator == [state |-> current_state, accumulation |-> shock_accumulation, log |-> shocks]

(* The effect of self.apply_event(ev, is_mist) on the variables. *)
ApplyEvent(ev, is_mist) ==
    LET after == applied(Simulator, ev, is_mist, now)
    IN  /\ current_state' = after.state
        /\ shock_accumulation' = after.accumulation
        /\ shocks' = after.log
        /\ ret' = after.ret

(* experience_clearing, lines 259-268: the simulator after the first n      *)
(* relief events, a pause of two seconds after each.                        *)
RECURSIVE relieved(_, _, _)
relieved(n, st, time) ==
    IF n = 0 THEN [state |-> st.state, accumulation |-> st.accumulation,
                   log |-> st.log, ret |-> FALSE]
    ELSE CHOOSE after \in
             { applied(before, relief_event(n), FALSE, time + 2 * UnitsPerSecond * n)
                 : before \in {relieved(n - 1, st, time)} } : TRUE

(* experience_clearing: a pause, then the three relief events applied and    *)
(* displayed in order.                                                       *)
ExperienceClearing ==
    LET after == relieved(Len(reliefs), Simulator, now)
    IN  /\ current_state' = after.state
        /\ shock_accumulation' = after.accumulation
        /\ shocks' = after.log
        /\ ret' = after.ret
        /\ shown' = TRUE
        /\ steps' = 0
        /\ now' = now + 2 * UnitsPerSecond * (1 + Len(reliefs))

----------------------------------------------------------------------------
(* Direct calls of the public methods on a new simulator.  pc names the     *)
(* method that returned last.                                                *)
Init ==
    /\ Constructed
    /\ fractions = {0, 1}
    /\ pc = "new"
    /\ mist_duration = 0
    /\ rain_duration = 0

Called(method) ==
    /\ error = "none"
    /\ calls < MaxCalls
    /\ calls' = calls + 1
    /\ pc' = method
    /\ UNCHANGED <<shock_types, fractions, total_drops, total_mist, start_time,
                   last_time, mist_duration, rain_duration>>

CallGenerateMist ==
    /\ Called("generate_mist")
    /\ event' \in generate_mist(fractions)
    /\ UNCHANGED <<thunder_count, current_state, shock_accumulation, shocks, ret, shown,
                   steps, error, now>>

CallGenerateShock ==
    /\ GenerateShock
    /\ Called(IF error' = "none" THEN "generate_shock" ELSE "raised")
    /\ UNCHANGED <<current_state, shock_accumulation, shocks, ret, shown, steps, now>>

CallApplyEvent ==
    /\ Called("apply_event")
    /\ event # NoEvent
    /\ ApplyEvent(event, IsMistKey(event.type))
    /\ steps' = 0
    /\ UNCHANGED <<thunder_count, event, shown, error, now>>

CallDecayState ==
    /\ Called("decay_state")
    /\ \E mist_mode \in BOOLEAN : current_state' = decay_state(current_state, mist_mode)
    /\ steps' = steps + 1
    /\ UNCHANGED <<thunder_count, shock_accumulation, shocks, event, ret, shown, error, now>>

CallExperienceClearing ==
    /\ Called("experience_clearing")
    /\ ExperienceClearing
    /\ UNCHANGED <<thunder_count, event, error>>

Next ==
    \/ CallGenerateMist
    \/ CallGenerateShock
    \/ CallApplyEvent
    \/ CallDecayState
    \/ CallExperienceClearing

Spec == Init /\ [][Next]_vars

----------------------------------------------------------------------------
(* Direct calls on a simulator whose shock table the caller has replaced:   *)
(* shock_types is a plain attribute, and no method validates it.            *)
with_negative_weight ==
    [BuiltinShockTypes EXCEPT !["sharp_hit"].weight = -32]

with_inverted_range ==
    [BuiltinShockTypes EXCEPT !["gentle_tap"].lo = 5000, !["gentle_tap"].hi = 2000]

with_zero_weights ==
    [k \in DOMAIN BuiltinShockTypes |-> [BuiltinShockTypes[k] EXCEPT !.weight = 0]]

with_thunder_weights_only ==
    [k \in DOMAIN BuiltinShockTypes |->
        IF IsThunder(k) THEN BuiltinShockTypes[k]
        ELSE [BuiltinShockTypes[k] EXCEPT !.weight = 0]]

ShockTables ==
    {with_negative_weight, with_inverted_range, with_zero_weights, with_thunder_weights_only}

InitConfig ==
    /\ Constructed
    /\ fractions \in {{0}, {1}}
    /\ pc = "new"
    /\ mist_duration = 0
    /\ rain_duration = 0

(* rain.shock_types = table, before the first call. *)
SetShockTypes ==
    /\ pc = "new"
    /\ shock_types = BuiltinShockTypes
    /\ shock_types' \in ShockTables
    /\ UNCHANGED <<thunder_count, current_state, shock_accumulation, shocks, total_drops,
                   total_mist, event, ret, shown, steps, calls, fractions, error, pc, now,
                   start_time, last_time, mist_duration, rain_duration>>

NextConfig ==
    \/ Next
    \/ SetShockTypes

SpecConfig == InitConfig /\ [][NextConfig]_vars

----------------------------------------------------------------------------
(* experience_full_cycle, followed by export_shock_log as in __main__.  pc   *)
(* names the next step of the run.                                           *)
InitCycle ==
    /\ Constructed
    /\ fractions \in {{0}, {1}}
    /\ pc = "mist_loop"
    /\ mist_duration = MistDuration
    /\ rain_duration = RainDuration

Waits == {ShortWait, StepWait, LongWait}

(* Mutant: ten decay steps a second. *)
decay_steps_ten(time_since_last) == (time_since_last * 10) \div UnitsPerSecond

(* int(time_since_last * 20) *)
decay_steps(time_since_last) == (time_since_last * 20) \div UnitsPerSecond

Parameters == <<shock_types, fractions, calls, mist_duration, rain_duration>>

(* experience_mist, lines 189-196: the loop test, the wait and the decay. *)
MistWaitDecay ==
    /\ pc = "mist_loop"
    /\ now - start_time < mist_duration
    /\ \E wait_time \in Waits : now' = now + wait_time
    /\ steps' = decay_steps(now' - last_time)
    /\ current_state' = decay_loop(current_state, steps', TRUE)
    /\ pc' = "mist_event"
    /\ UNCHANGED <<thunder_count, shock_accumulation, shocks, total_drops, total_mist,
                   event, ret, shown, error, start_time, last_time>>
    /\ UNCHANGED Parameters

(* experience_mist, lines 198-206: one mist event sampled, counted, applied *)
(* and displayed three times in ten.                                        *)
MistEvent ==
    /\ pc = "mist_event"
    /\ \E mist \in generate_mist(fractions) :
          /\ event' = mist
          /\ ApplyEvent(mist, TRUE)
    /\ total_mist' = total_mist + 1
    /\ shown' \in BOOLEAN
    /\ last_time' = now
    /\ pc' = "mist_loop"
    /\ UNCHANGED <<thunder_count, total_drops, steps, error, now, start_time>>
    /\ UNCHANGED Parameters

(* Mutant: the clearing is run before the storm. *)
MistExit_clearing_first ==
    /\ pc = "mist_loop"
    /\ ~(now - start_time < mist_duration)
    /\ now' = now + 2 * UnitsPerSecond
    /\ pc' = "clearing"
    /\ UNCHANGED <<thunder_count, current_state, shock_accumulation, shocks, total_drops,
                   total_mist, event, ret, shown, steps, error, start_time, last_time>>
    /\ UNCHANGED Parameters

(* experience_mist, lines 208-211, and experience_rain, lines 223-224. *)
MistExit ==
    /\ pc = "mist_loop"
    /\ ~(now - start_time < mist_duration)
    /\ now' = now + 2 * UnitsPerSecond
    /\ start_time' = now'
    /\ last_time' = now'
    /\ pc' = "rain_loop"
    /\ UNCHANGED <<thunder_count, current_state, shock_accumulation, shocks, total_drops,
                   total_mist, event, ret, shown, steps, error>>
    /\ UNCHANGED Parameters

(* experience_rain, lines 226-236. *)
RainWaitDecay ==
    /\ pc = "rain_loop"
    /\ now - start_time < rain_duration
    /\ \E wait_time \in Waits : now' = now + wait_time
    /\ steps' = decay_steps(now' - last_time)
    /\ current_state' = decay_loop(current_state, steps', FALSE)
    /\ pc' = "rain_event"
    /\ UNCHANGED <<thunder_count, shock_accumulation, shocks, total_drops, total_mist,
                   event, ret, shown, error, start_time, last_time>>
    /\ UNCHANGED Parameters

(* experience_rain, lines 238-244: one shock sampled, counted, applied, and *)
(* displayed when apply_event returns true.                                 *)
RainEvent ==
    /\ pc = "rain_event"
    /\ GenerateShock
    /\ IF error' = "none"
       THEN /\ total_drops' = total_drops + 1
            /\ ApplyEvent(event', FALSE)
            /\ shown' = ret'
            /\ last_time' = now
            /\ pc' = "rain_loop"
       ELSE /\ pc' = "raised"
            /\ UNCHANGED <<total_drops, current_state, shock_accumulation, shocks, ret,
                           shown, last_time>>
    /\ UNCHANGED <<total_mist, steps, now, start_time>>
    /\ UNCHANGED Parameters

(* Mutant: the loop test measures the time since the last drop. *)
RainExit_since_last_drop ==
    /\ pc = "rain_loop"
    /\ ~(now - last_time < rain_duration)
    /\ pc' = "clearing"
    /\ UNCHANGED <<thunder_count, current_state, shock_accumulation, shocks, total_drops,
                   total_mist, event, ret, shown, steps, error, now, start_time, last_time>>
    /\ UNCHANGED Parameters

(* experience_rain returns when its duration has expired. *)
RainExit ==
    /\ pc = "rain_loop"
    /\ ~(now - start_time < rain_duration)
    /\ pc' = "clearing"
    /\ UNCHANGED <<thunder_count, current_state, shock_accumulation, shocks, total_drops,
                   total_mist, event, ret, shown, steps, error, now, start_time, last_time>>
    /\ UNCHANGED Parameters

(* Mutant: the clearing starts a new thunder quota. *)
Clearing_resets_thunder ==
    /\ pc = "clearing"
    /\ ExperienceClearing
    /\ pc' = "summary"
    /\ thunder_count' = 0
    /\ UNCHANGED <<total_drops, total_mist, event, error, start_time, last_time>>
    /\ UNCHANGED Parameters

(* experience_full_cycle, line 276. *)
Clearing ==
    /\ pc = "clearing"
    /\ ExperienceClearing
    /\ pc' = "summary"
    /\ UNCHANGED <<thunder_count, total_drops, total_mist, event, error, start_time,
                   last_time>>
    /\ UNCHANGED Parameters

(* print_shock_summary reads the counters and the log, and prints. *)
PrintShockSummary ==
    /\ pc = "summary"
    /\ pc' = "export"
    /\ UNCHANGED <<thunder_count, current_state, shock_accumulation, shocks, total_drops,
                   total_mist, event, ret, shown, steps, error, now, start_time, last_time>>
    /\ UNCHANGED Parameters

(* export_shock_log reads the counters and the log, and writes the file. *)
ExportShockLog ==
    /\ pc = "export"
    /\ pc' = "done"
    /\ UNCHANGED <<thunder_count, current_state, shock_accumulation, shocks, total_drops,
                   total_mist, event, ret, shown, steps, error, now, start_time, last_time>>
    /\ UNCHANGED Parameters

NextCycle ==
    \/ MistWaitDecay
    \/ MistEvent
    \/ MistExit
    \/ RainWaitDecay
    \/ RainEvent
    \/ RainExit
    \/ Clearing
    \/ PrintShockSummary
    \/ ExportShockLog

SpecCycle == InitCycle /\ [][NextCycle]_vars

(* The run as the interpreter executes it: a statement that can be executed *)
(* is executed, and every sleep returns.                                    *)
SpecCycleFair == SpecCycle /\ WF_vars(NextCycle)


----------------------------------------------------------------------------
(* Properties of the thunder quota.                                         *)

(* The entries of a log whose type is a thunder key. *)
ThunderEntries(log) == { i \in 1 .. Len(log) : IsThunder(log[i].type) }

(* The keys generate_shock can return in the current state. *)
EligibleKeys == { ev.type : ev \in generate_shock(thunder_count, shock_types, fractions) }

(* A step that is a call of generate_shock. *)
GenerateShockReturns == calls' = calls + 1 /\ pc' = "generate_shock"

(* C1: in every state reached by direct calls of generate_mist,             *)
(* generate_shock, apply_event and decay_state on a new simulator,          *)
(* thunder_count <= max_thunder.                                            *)
C1_ThunderCountWithinCap == thunder_count <= max_thunder

(* C1 witness: the quota is used up and generate_shock was called again,    *)
(* after an event was applied.                                             *)
C1_Witness ==
    /\ thunder_count = max_thunder
    /\ pc = "generate_shock"
    /\ ~IsThunder(event.type)
    /\ Len(shocks) >= 1

(* C2: once thunder_count = max_thunder it stays there and no later call of *)
(* generate_shock returns quick_rumble or deep_roll; below the cap all five *)
(* shock keys, the two thunder keys included, can be returned, and at the   *)
(* cap exactly the three others.                                            *)
C2_NoThunderAfterCap ==
    /\ [](IF thunder_count >= max_thunder
          THEN EligibleKeys = {"gentle_tap", "sharp_hit", "cold_spike"}
          ELSE EligibleKeys = {"gentle_tap", "sharp_hit", "cold_spike",
                               "quick_rumble", "deep_roll"})
    /\ [][thunder_count = max_thunder =>
            /\ thunder_count' = max_thunder
            /\ (GenerateShockReturns => ~IsThunder(event'.type))]_vars

(* C2 witness: two thunder draws used up the quota and two later calls of   *)
(* generate_shock returned other keys.                                      *)
C2_Witness ==
    /\ thunder_count = max_thunder
    /\ pc = "generate_shock"
    /\ calls = max_thunder + 2
    /\ event.type = "cold_spike"
    /\ shocks = << >>

(* C3: for a storm of any length the log holds at most two entries whose    *)
(* type is a thunder key.                                                   *)
C3_AtMostTwoThunderEntries == Cardinality(ThunderEntries(shocks)) <= 2

(* C3 witness: a finished run whose storm logged two thunder events and     *)
(* then a third drop.                                                       *)
C3_Witness ==
    /\ pc = "done"
    /\ total_drops = 3
    /\ Cardinality(ThunderEntries(shocks)) = 2
    /\ ~IsThunder(shocks[total_mist + total_drops].type)


----------------------------------------------------------------------------
(* Properties of the phases.                                                *)

(* The phase of a control position of the full cycle: 1 MISTING, 2 STORMING, *)
(* 3 CLEARING, 4 DONE.                                                       *)
Phase(position) ==
    CASE position \in {"mist_loop", "mist_event"} -> 1
      [] position \in {"rain_loop", "rain_event"} -> 2
      [] position = "clearing" -> 3
      [] OTHER -> 4

IsRelief(entry) == entry.type = "relief"

IsShock(entry) == ~entry.is_mist /\ ~IsRelief(entry)

(* Mist entries, then shock entries, then relief entries. *)
LogInPhaseOrder(log) ==
    \A i, j \in 1 .. Len(log) :
        i < j => /\ log[j].is_mist => log[i].is_mist
                 /\ IsRelief(log[i]) => IsRelief(log[j])

(* C4: a full cycle goes through MISTING, STORMING, CLEARING, DONE in that  *)
(* order, never back; in the log every mist entry precedes every shock      *)
(* entry and every shock entry precedes the relief entries, which end it.   *)
C4_PhasesInOrder ==
    /\ [](/\ LogInPhaseOrder(shocks)
          /\ Phase(pc) = 1 => \A i \in 1 .. Len(shocks) : shocks[i].is_mist
          /\ Phase(pc) <= 3 => \A i \in 1 .. Len(shocks) : ~IsRelief(shocks[i])
          /\ Phase(pc) = 4 =>
                /\ Len(shocks) = total_mist + total_drops + 3
                /\ \A i \in 1 .. Len(shocks) :
                      /\ shocks[i].is_mist <=> i <= total_mist
                      /\ IsRelief(shocks[i]) <=> i > total_mist + total_drops)
    /\ [][Phase(pc') = Phase(pc) \/ Phase(pc') = Phase(pc) + 1]_vars

(* C4 witness: a finished run with two mist entries, two shock entries and  *)
(* the three relief entries.                                                *)
C4_Witness ==
    /\ pc = "done"
    /\ Len(shocks) = 7
    /\ shocks[2].is_mist
    /\ IsShock(shocks[3])
    /\ IsShock(shocks[4])
    /\ IsRelief(shocks[5])

----------------------------------------------------------------------------
(* Properties of the state engine.                                          *)

(* The float sum of the intensities of a log, added in log order from 0. *)
RECURSIVE SumIntensity(_)
SumIntensity(log) ==
    IF Len(log) = 0 THEN 0
    ELSE fl(SumIntensity(SubSeq(log, 1, Len(log) - 1)) + log[Len(log)].intensity)

(* C5: shock_accumulation is the sum of the intensities of the events       *)
(* applied so far (the float sum in the order applied), whatever decay_state *)
(* calls were made between them.                                            *)
C5_AccumulationIsSum == shock_accumulation = SumIntensity(shocks)

(* C5 witness: a shock was applied twice with a decay between the two calls *)
(* that lowered the state, and the accumulation is twice its intensity.     *)
C5_Witness ==
    /\ pc = "apply_event"
    /\ Len(shocks) = 2
    /\ shocks[2].state_before < shocks[1].state_after
    /\ shocks[2].intensity >= shock_threshold
    /\ shock_accumulation = 2 * shocks[2].intensity
    /\ current_state - baseline_state < shock_accumulation


(* The rate decay_state uses, in units of 1/CENT. *)
DecayRate(mist_mode) == IF mist_mode THEN mist_decay ELSE shock_decay

(* C6 as stated: decay_state leaves a state <= baseline unchanged, and      *)
(* makes a state > baseline strictly smaller without going below baseline.  *)
C6_DecayStrictlyDecreases ==
    \A mist_mode \in BOOLEAN :
        LET after == decay_state(current_state, mist_mode)
        IN  IF current_state <= baseline_state
            THEN after = current_state
            ELSE after < current_state /\ after >= baseline_state

(* C6 as amended: decay_state leaves a state <= baseline unchanged; from a  *)
(* state > baseline the new value is (state - baseline) * rate + baseline   *)
(* as the arithmetic rounds it, never larger than the old one and never     *)
(* below baseline, and strictly smaller whenever the decrement              *)
(* (state - baseline) * (1 - rate) is more than the spacing of the          *)
(* representable numbers at the state; 1.30 gives 1.285 at rate 0.95.       *)
C6_DecayNeverRaisesNorOvershoots ==
    /\ \A mist_mode \in BOOLEAN :
          LET after == decay_state(current_state, mist_mode)
              excess == current_state - baseline_state
          IN  IF current_state <= baseline_state
              THEN after = current_state
              ELSE /\ after <= current_state
                   /\ after >= baseline_state
                   /\ after = fl(fl_quot(excess * DecayRate(mist_mode), CENT) + baseline_state)
                   /\ excess * (CENT - DecayRate(mist_mode)) > ulp(current_state) * CENT
                         => after < current_state
    /\ decay_state(130000, FALSE) = 128500

(* C6 witness: the decay loop of a storm iteration has lowered a state that *)
(* was above baseline, and the next decay_state call lowers it again.       *)
C6_Witness ==
    /\ pc = "rain_event"
    /\ steps >= 1
    /\ Len(shocks) >= 1
    /\ current_state < shocks[Len(shocks)].state_after
    /\ current_state > baseline_state
    /\ decay_state(current_state, FALSE) < current_state

(* C7: apply_event(event, is_mist) adds event.intensity to current_state    *)
(* and to shock_accumulation (float sums), appends one entry whose          *)
(* state_before is the state before the call and whose state_after, the     *)
(* float sum state_before + intensity, is the state after it, and returns   *)
(* whether |intensity| >= 0.02; from 1.0 an intensity of +0.30 gives state  *)
(* 1.30, accumulation 0.30 and an entry with state_before 1.0 and           *)
(* state_after 1.30.                                                        *)
C7_ApplyEventEffect ==
    /\ [][(calls' = calls + 1 /\ pc' = "apply_event") =>
            LET entry == shocks'[Len(shocks')]
            IN  /\ current_state' = fl(current_state + event.intensity)
                /\ shock_accumulation' = fl(shock_accumulation + event.intensity)
                /\ Len(shocks') = Len(shocks) + 1
                /\ entry.intensity = event.intensity
                /\ entry.state_before = current_state
                /\ entry.state_after = fl(entry.state_before + entry.intensity)
                /\ entry.state_after = current_state'
                /\ ret' = (Abs(event.intensity) >= 2000)]_vars
    /\ [](LET after == applied([state |-> 100000, accumulation |-> 0, log |-> << >>],
                               [type |-> "deep_roll", intensity |-> 30000, chaos |-> 1000],
                               FALSE, now)
          IN  /\ after.state = 130000
              /\ after.accumulation = 30000
              /\ after.log[1].state_before = 100000
              /\ after.log[1].state_after = 130000
              /\ after.ret)

(* C7 witness: a second event was applied to a state that decay had         *)
(* lowered, and apply_event returned false for it.                          *)
C7_Witness ==
    /\ pc = "apply_event"
    /\ Len(shocks) = 2
    /\ shocks[2].state_before < shocks[1].state_after
    /\ shocks[2].state_after = current_state
    /\ ~ret


(* Whether the log grows from log to next by exactly n entries at its end. *)
Appended(log, next, n) ==
    /\ Len(next) = Len(log) + n
    /\ SubSeq(next, 1, Len(log)) = log

(* C8: the log only grows at its end: a mist or storm iteration appends the *)
(* one event it sampled, displayed or not, the clearing appends its three   *)
(* relief events, and no other step of the run changes the log; so the log  *)
(* holds every event counted.                                               *)
C8_LogAppendOnlyAndComplete ==
    /\ [][Appended(shocks, shocks',
                   CASE pc \in {"mist_event", "rain_event"} -> 1
                     [] pc = "clearing" -> 3
                     [] OTHER -> 0)]_vars
    /\ [](Len(shocks) = total_mist + total_drops + (IF Phase(pc) = 4 THEN 3 ELSE 0))

(* C8 witness: the storm has logged a drop under the display threshold,     *)
(* which was not displayed, after two mist events.                          *)
C8_Witness ==
    /\ pc = "rain_loop"
    /\ total_mist = 2
    /\ total_drops = 1
    /\ Len(shocks) = 3
    /\ Abs(shocks[3].intensity) < shock_threshold
    /\ ~shown

(* C9: experience_clearing applies three relief events of intensity -0.18,  *)
(* -0.32 and -0.45 in that order, each logged; called on a new simulator it *)
(* leaves shock_accumulation at their sum, which is negative, and           *)
(* current_state below baseline.                                            *)
C9_ClearingAppliesThreeReliefs ==
    pc = "experience_clearing" =>
        LET n == Len(shocks) - 3
        IN  /\ n >= 0
            /\ \A i \in 1 .. 3 : IsRelief(shocks[n + i]) /\ ~shocks[n + i].is_mist
            /\ shocks[n + 1].intensity = -18000
            /\ shocks[n + 2].intensity = -32000
            /\ shocks[n + 3].intensity = -45000
            /\ \A i \in 1 .. 3 :
                  shocks[n + i].state_after
                      = fl(shocks[n + i].state_before + shocks[n + i].intensity)
            /\ shocks[n + 2].state_before = shocks[n + 1].state_after
            /\ shocks[n + 3].state_before = shocks[n + 2].state_after
            /\ current_state = shocks[n + 3].state_after
            /\ calls = 1 =>
                  /\ n = 0
                  /\ shocks[1].state_before = baseline_state
                  /\ shock_accumulation = -95000
                  /\ shock_accumulation < 0
                  /\ current_state = 5000
                  /\ current_state < baseline_state

(* C9 witness: experience_clearing was the first call on a new simulator. *)
C9_Witness ==
    /\ pc = "experience_clearing"
    /\ calls = 1
    /\ Len(shocks) = 3
    /\ shock_accumulation = -95000
    /\ current_state < baseline_state

----------------------------------------------------------------------------
(* Properties of the errors.                                                *)

(* A table with a negative weight, an inverted range or only zero weights. *)
Malformed(table) ==
    \/ \E k \in DOMAIN table : table[k].weight < 0
    \/ \E k \in DOMAIN table : table[k].lo > table[k].hi
    \/ \A k \in DOMAIN table : table[k].weight = 0

(* The total of the weights generate_shock would sample from. *)
AvailableWeight ==
    LET types == available_types(thunder_count, shock_types)
    IN  total_weight([i \in 1 .. Len(types) |-> shock_types[types[i]].weight])

----------------------------------------------------------------------------
(* Properties of the clearing and of the sampled events.                    *)

(* C11 as stated: the clearing only reads the state: current_state,         *)
(* shock_accumulation and thunder_count are at its end what they were at    *)
(* the end of the storm.                                                     *)
C11_ClearingLeavesStateUnchanged ==
    [][pc = "clearing" =>
          UNCHANGED <<current_state, shock_accumulation, thunder_count>>]_vars

(* C11 as amended: the clearing leaves thunder_count and the two event       *)
(* counters unchanged, but it applies its three relief events: it lowers    *)
(* current_state and shock_accumulation by 0.18, 0.32 and 0.45 in turn and   *)
(* appends three entries; the summary and the export change nothing.        *)
C11_ClearingMutatesStateNotThunder ==
    /\ [][pc = "clearing" =>
            /\ UNCHANGED <<thunder_count, total_mist, total_drops>>
            /\ current_state' = fl(fl(fl(current_state - 18000) - 32000) - 45000)
            /\ current_state' < current_state
            /\ shock_accumulation'
                  = fl(fl(fl(shock_accumulation - 18000) - 32000) - 45000)
            /\ shock_accumulation' < shock_accumulation
            /\ Len(shocks') = Len(shocks) + 3]_vars
    /\ [][(pc = "summary" \/ pc = "export") =>
            /\ UNCHANGED <<current_state, shock_accumulation, thunder_count>>
            /\ UNCHANGED <<shocks, total_mist, total_drops>>]_vars

(* C11 witness: the clearing has run after a storm that used up the thunder *)
(* quota, and left a state other than the one the storm ended with.         *)
C11_Witness ==
    /\ pc = "summary"
    /\ thunder_count = max_thunder
    /\ Len(shocks) = total_mist + total_drops + 3
    /\ current_state < shocks[total_mist + total_drops].state_after
    /\ shock_accumulation < SumIntensity(SubSeq(shocks, 1, total_mist + total_drops))

(* The catalog entry an event names. *)
Category(ev) == IF IsMistKey(ev.type) THEN mist_types[ev.type] ELSE shock_types[ev.type]

(* An event returned by generate_mist or generate_shock is held in event. *)
Sampled == event # NoEvent

(* C12 as stated: a sampled event's intensity lies within the intensity     *)
(* range of the category it names, and its chaos factor is > 0.             *)
C12_IntensityWithinCategoryRange ==
    Sampled =>
        /\ Category(event).lo <= event.intensity
        /\ event.intensity <= Category(event).hi
        /\ event.chaos > 0

(* C12 as amended: the chaos factor is > 0, and the intensity is a base     *)
(* intensity within the range of the category multiplied by the chaos       *)
(* factor: it lies between min * chaos and max * chaos, which is outside    *)
(* the range itself when the factor takes it there.                         *)
C12_BaseIntensityWithinCategoryRange ==
    Sampled =>
        /\ event.chaos > 0
        /\ event.intensity > 0
        /\ scaled(Category(event).lo, event.chaos) <= event.intensity
        /\ event.intensity <= scaled(Category(event).hi, event.chaos)
        /\ \E base \in {Category(event).lo, Category(event).hi} :
              event.intensity = scaled(base, event.chaos)

(* C12 witness: generate_shock has returned a gentle_tap weaker than the    *)
(* least intensity of its range, after generate_mist returned an event.     *)
C12_Witness ==
    /\ pc = "generate_shock"
    /\ calls >= 2
    /\ event.type = "gentle_tap"
    /\ event.chaos < MILLE
    /\ event.intensity < shock_types["gentle_tap"].lo

----------------------------------------------------------------------------
(* Termination.                                                             *)

(* C13: with finite durations and a clock that advances, a full cycle       *)
(* reaches the end: the mist loop is left once its duration has expired,    *)
(* the storm loop likewise, the clearing finishes after its three relief    *)
(* events, and no step raises or sends the run back to an earlier phase.    *)
C13_CycleReachesDone ==
    /\ <>(pc = "done")
    /\ [](error = "none" /\ pc # "raised")
    /\ [](pc # "done" => ENABLED <<NextCycle>>_vars)
    /\ [][(pc = "mist_loop" /\ now - start_time >= mist_duration) => pc' = "rain_loop"]_vars
    /\ [][(pc = "rain_loop" /\ now - start_time >= rain_duration) => pc' = "clearing"]_vars
    /\ [][pc = "clearing" => (pc' = "summary" /\ Len(shocks') = Len(shocks) + 3)]_vars
    /\ [][now' >= now /\ (pc' \in {"mist_event", "rain_event"} => now' > now)]_vars

(* C13 witness: a run has ended whose mist phase and storm phase each took  *)
(* more than one iteration, the storm overrunning its duration by a long    *)
(* wait.                                                                    *)
C13_Witness ==
    /\ pc = "done"
    /\ total_mist >= 2
    /\ total_drops >= 2
    /\ now - start_time > rain_duration + StepWait

----------------------------------------------------------------------------
(* Frame of the thunder counter.                                            *)

(* C14: thunder_count changes only when a shock is sampled: a draw of a     *)
(* thunder key raises it by exactly 1 and a draw of another key leaves it   *)
(* unchanged; the decay loops, generate_mist, apply_event, the whole mist   *)
(* phase and the clearing leave it unchanged, so it is 0 when the storm     *)
(* starts.                                                                  *)
C14_ThunderCountOnlyBySampling ==
    /\ [][IF pc = "rain_event"
          THEN /\ IsThunder(event'.type) => thunder_count' = thunder_count + 1
               /\ ~IsThunder(event'.type) => thunder_count' = thunder_count
          ELSE thunder_count' = thunder_count]_vars
    /\ [](Phase(pc) = 1 => thunder_count = 0)
    /\ []((pc = "rain_loop" /\ total_drops = 0) => thunder_count = 0)

(* C14 witness: after a mist phase of two events the storm has sampled one  *)
(* thunder key and one other key, with a decay between them.                *)
C14_Witness ==
    /\ pc = "rain_loop"
    /\ total_mist = 2
    /\ total_drops = 2
    /\ thunder_count = 1
    /\ IsThunder(shocks[3].type)
    /\ shocks[4].state_before < shocks[3].state_after

----------------------------------------------------------------------------
(* Numbers of the sampled events.                                           *)

(* C15: the chaos factor of a shock lies in [0.5, 1.75], that of a mist     *)
(* event in [0.85, 1.15]; the intensity is an in-range base intensity       *)
(* times the factor (to the rounding of the product), so that a shock       *)
(* intensity lies in [0.5 * min, 1.75 * max] of its category and a mist     *)
(* intensity in [0.85 * min, 1.15 * max].                                   *)
C15_ChaosFactorRanges ==
    Sampled =>
        LET down == IF IsMistKey(event.type) THEN 850 ELSE 500
            up == IF IsMistKey(event.type) THEN 1150 ELSE 1750
        IN  /\ down <= event.chaos /\ event.chaos <= up
            /\ (~IsMistKey(event.type)) =>
                  /\ event.chaos >= MILLE - unpredictability
                  /\ 2 * event.chaos <= 2 * MILLE + 3 * unpredictability
            /\ IsMistKey(event.type) =>
                  /\ event.chaos >= MILLE - mist_unpredictability
                  /\ event.chaos <= MILLE + mist_unpredictability
            /\ \E base \in {Category(event).lo, Category(event).hi} :
                  2 * Abs(event.intensity * MILLE - base * event.chaos) <= MILLE
            /\ down * Category(event).lo <= MILLE * event.intensity
            /\ MILLE * event.intensity <= up * Category(event).hi

(* C15 witness: generate_shock has returned a deep_roll at the top of its   *)
(* range with the largest chaos factor, 0.40 * 1.75 = 0.70.                 *)
C15_Witness ==
    /\ pc = "generate_shock"
    /\ event.type = "deep_roll"
    /\ event.chaos = 1750
    /\ event.intensity = 70000

----------------------------------------------------------------------------
(* The iterations of the mist and of the storm.                             *)

(* One decay step at the given rate (in hundredths), as decay_state         *)
(* computes it.                                                             *)
OneStep(state, rate) ==
    IF state > baseline_state
    THEN fl(fl_quot((state - baseline_state) * rate, CENT) + baseline_state)
    ELSE state

(* C16: an iteration of the mist or of the storm waits, then makes          *)
(* floor(dt * 20) decay steps for the dt seconds since the previous event   *)
(* of the phase (since its start, in the first iteration), at rate 0.98 in  *)
(* the mist and 0.95 in the storm, then samples one event and applies it:   *)
(* exactly one event an iteration.                                          *)
C16_IterationOrder ==
    /\ [][(pc = "mist_loop" \/ pc = "rain_loop") /\ Phase(pc') = Phase(pc) =>
            /\ pc' = (IF pc = "mist_loop" THEN "mist_event" ELSE "rain_event")
            /\ now' > now
            /\ steps' = ((now' - last_time) * 20) \div UnitsPerSecond
            /\ current_state' = decay_loop(current_state, steps', pc = "mist_loop")
            /\ steps' = 0 => current_state' = current_state
            /\ steps' = 1 =>
                  current_state' = OneStep(current_state, IF pc = "mist_loop" THEN 98 ELSE 95)
            /\ current_state' <= current_state
            /\ UNCHANGED <<shocks, event, total_mist, total_drops, shock_accumulation>>]_vars
    /\ [][(pc = "mist_event" \/ pc = "rain_event") =>
            /\ pc' = (IF pc = "mist_event" THEN "mist_loop" ELSE "rain_loop")
            /\ IsMistKey(event'.type) <=> pc = "mist_event"
            /\ Len(shocks') = Len(shocks) + 1
            /\ shocks'[Len(shocks')].type = event'.type
            /\ shocks'[Len(shocks')].intensity = event'.intensity
            /\ shocks'[Len(shocks')].is_mist = (pc = "mist_event")
            /\ shocks'[Len(shocks')].state_before = current_state
            /\ total_mist' + total_drops' = total_mist + total_drops + 1
            /\ last_time' = now
            /\ now' = now]_vars
    /\ [](pc \in {"mist_event", "rain_event"} => Len(shocks) = total_mist + total_drops)

(* C16 witness: a storm iteration has waited a twentieth of a second after  *)
(* the previous drop and made its one decay step at rate 0.95; its event is *)
(* still to be sampled.                                                     *)
C16_Witness ==
    /\ pc = "rain_event"
    /\ total_drops >= 1
    /\ steps = 1
    /\ now - last_time = StepWait
    /\ current_state < shocks[Len(shocks)].state_after
    /\ current_state = OneStep(shocks[Len(shocks)].state_after, 95)
    /\ current_state # OneStep(shocks[Len(shocks)].state_after, 98)

----------------------------------------------------------------------------
(* Invariants of the state.                                                 *)

(* C17: from the start of the run to the end of the storm current_state is  *)
(* never below baseline: every mist and shock intensity is positive and the *)
(* decay stops at baseline; only the relief events of the clearing take the *)
(* state below baseline.                                                    *)
C17_StateAtLeastBaselineBeforeClearing ==
    /\ [](Phase(pc) <= 3 => current_state >= baseline_state)
    /\ [](\A i \in 1 .. Len(shocks) :
             /\ ~IsRelief(shocks[i]) =>
                   /\ shocks[i].intensity > 0
                   /\ shocks[i].state_before >= baseline_state
                   /\ shocks[i].state_after > baseline_state
             /\ shocks[i].state_after < baseline_state => IsRelief(shocks[i]))
    /\ [][(current_state >= baseline_state /\ current_state' < baseline_state)
            => pc = "clearing"]_vars

(* C17 witness: the storm ended above baseline after decays had lowered the *)
(* state, and the clearing has taken it below baseline.                     *)
C17_Witness ==
    /\ pc = "summary"
    /\ current_state < baseline_state
    /\ shocks[total_mist + total_drops].state_after > baseline_state
    /\ \E i \in 1 .. total_mist + total_drops - 1 :
          /\ shocks[i + 1].state_before < shocks[i].state_after
          /\ shocks[i + 1].state_before < baseline_state + 100

(* No decay has changed the state: every event was applied to the state the *)
(* event before it left.                                                    *)
NoDecayChange ==
    /\ current_state = (IF Len(shocks) = 0 THEN baseline_state
                        ELSE shocks[Len(shocks)].state_after)
    /\ \A i \in 1 .. Len(shocks) :
          shocks[i].state_before = (IF i = 1 THEN baseline_state
                                    ELSE shocks[i - 1].state_after)

(* The largest rounding error of a float result of value v. *)
HalfUlp(v) == ulp(Abs(v)) \div 2

(* The rounding errors the two sums of apply_event can have made over a log. *)
RECURSIVE Slack(_)
Slack(log) ==
    IF Len(log) = 0 THEN 0
    ELSE Slack(SubSeq(log, 1, Len(log) - 1))
         + HalfUlp(log[Len(log)].state_after) + HalfUlp(SumIntensity(log))

(* C18 as stated: current_state - baseline <= shock_accumulation in every   *)
(* state, with equality as long as no decay has changed the state.          *)
C18_DisplacementAtMostAccumulation ==
    /\ current_state - baseline_state <= shock_accumulation
    /\ NoDecayChange => current_state - baseline_state = shock_accumulation

(* C18 as amended: the two sums of apply_event are rounded separately, so   *)
(* current_state - baseline exceeds shock_accumulation by at most the       *)
(* rounding errors of the events applied, and differs from it by at most    *)
(* that much as long as no decay has changed the state; decay only lowers   *)
(* the state and leaves the accumulation alone.                             *)
C18_DisplacementWithinRounding ==
    /\ [](current_state - baseline_state <= shock_accumulation + Slack(shocks))
    /\ [](NoDecayChange =>
             shock_accumulation - Slack(shocks) <= current_state - baseline_state)
    /\ [][(calls' = calls + 1 /\ pc' = "decay_state") =>
             /\ current_state' <= current_state
             /\ shock_accumulation' = shock_accumulation]_vars

(* C18 witness: one event was applied to the new simulator and no decay was *)
(* made, and current_state - baseline is more than shock_accumulation.      *)
C18_Witness ==
    /\ pc = "apply_event"
    /\ Len(shocks) = 1
    /\ NoDecayChange
    /\ current_state - baseline_state > shock_accumulation

----------------------------------------------------------------------------
(* The log and the counters of the summary.                                 *)

MistEntries(log) == { i \in 1 .. Len(log) : log[i].is_mist }

(* C19: after a full cycle the counters the summary prints agree with the   *)
(* log: it has total_mist + total_drops + 3 entries, total_mist of them     *)
(* with is_mist true, and thunder_count of them of a thunder type.          *)
C19_CountersAgreeWithLog ==
    /\ Phase(pc) = 4 =>
          /\ Len(shocks) = total_mist + total_drops + 3
          /\ Cardinality(MistEntries(shocks)) = total_mist
          /\ Cardinality(ThunderEntries(shocks)) = thunder_count
          /\ Cardinality({ i \in 1 .. Len(shocks) : IsShock(shocks[i]) }) = total_drops
    /\ Cardinality(MistEntries(shocks)) = total_mist
    /\ Cardinality(ThunderEntries(shocks)) = thunder_count

(* C19 witness: the summary is about to print the counters of a run of two  *)
(* mist events and three drops, one of them thunder.                        *)
C19_Witness ==
    /\ pc = "summary"
    /\ total_mist = 2
    /\ total_drops = 3
    /\ thunder_count = 1
    /\ Len(shocks) = 8

(* Whether a state can follow the state an event left by decay steps only. *)
DecayOnly(left, found) ==
    IF left <= baseline_state
    THEN found = left
    ELSE baseline_state < found /\ found <= left

(* C20: between two consecutive log entries only decay changes the state:   *)
(* the state an entry left at or below baseline is the state the next entry *)
(* found, and a state it left above baseline is found no higher and still   *)
(* above baseline; the first entry found the baseline 1.0.                  *)
C20_ConsecutiveEntriesDecayOnly ==
    /\ Len(shocks) >= 1 => shocks[1].state_before = 100000
    /\ \A k \in 1 .. Len(shocks) - 1 :
          DecayOnly(shocks[k].state_after, shocks[k + 1].state_before)
    /\ Len(shocks) >= 1 => DecayOnly(shocks[Len(shocks)].state_after, current_state)
    /\ \A mist_mode \in BOOLEAN :
          DecayOnly(current_state, decay_state(current_state, mist_mode))

(* C20 witness: in a finished run a long wait let the decay bring the state *)
(* an event had left down to just above baseline, where the next event      *)
(* found it, and the last relief event found the state below baseline that  *)
(* the one before it had left.                                              *)
C20_Witness ==
    /\ pc = "done"
    /\ \E k \in 1 .. total_mist + total_drops - 1 :
          /\ shocks[k].state_after > baseline_state + 1000
          /\ shocks[k + 1].state_before < baseline_state + 100
          /\ shocks[k + 1].state_before > baseline_state
    /\ shocks[Len(shocks) - 1].state_after < baseline_state
    /\ shocks[Len(shocks)].state_before = shocks[Len(shocks) - 1].state_after
    /\ current_state < baseline_state

====
